---- MODULE Spec2Model ----
(***************************************************************************)
(* DiskCache (src/src/test/disk_cache.rs): a URL-keyed disk cache.         *)
(*                                                                         *)
(*  - Spec       : the store.  A filesystem (directories, files), and      *)
(*                 callers that run DiskCache::get and DiskCache::set      *)
(*                 concurrently; set is split at its filesystem calls, so  *)
(*                 that failures, crashes and other callers interleave.    *)
(*  - SpecCodec  : the path derivation, get_cache_filename and             *)
(*                 get_cache_filename_with_extension, applied to locators  *)
(*                 drawn from a bounded set.                               *)
(*                                                                         *)
(* Paths are sequences of components; a component is a string (store) or   *)
(* a sequence of characters (codec, where extensions are computed).        *)
(***************************************************************************)
EXTENDS Integers, Sequences, FiniteSets, TLC

VARIABLES
    dirs,      \* the directories of the filesystem (absolute paths)
    files,     \* the regular files: path -> content
    call,      \* per caller: the call in progress
    ret,       \* what the call that finished last returned
    ncalls,    \* number of calls started so far
    lastSet,   \* history: per relative path, {data of the last successful set}
    given,     \* history: per relative path, the data handed to set calls
    os,        \* the target the crate is built for: "linux" or "windows"
    cur,       \* the last derivation: locator, extension, base path, result
    prev,      \* the derivation before it
    phase      \* how many derivations were made

storeVars == <<dirs, files, call, ret, ncalls, lastSet, given>>

codecVars == <<os, cur, prev, phase>>

vars == <<dirs, files, call, ret, ncalls, lastSet, given, os, cur, prev, phase>>

(***************************************************************************)
(* Bounds and input alphabets                                              *)
(***************************************************************************)
MaxCalls == 3

Procs == {"p1", "p2"}

\* filenames handed to get and set: a file, a file in a sub-directory whose
\* name is the first file's, and an unrelated file
RelPaths == {<<"a">>, <<"a", "b">>, <<"b">>}

\* byte strings handed to set: one byte and two bytes.  The empty string and
\* <<2>> are contents no caller ever hands in: a file holding one of them
\* holds a default or a partial write.
Data == {<<1>>, <<2, 1>>}

None == "None"

\* io::ErrorKind values the model distinguishes
ErrorKinds == {"NotFound", "PermissionDenied", "AlreadyExists",
               "NotADirectory", "IsADirectory", "Other"}

\* faults the environment may inject into a filesystem call
Faults == {None, "PermissionDenied"}

(***************************************************************************)
(* Paths                                                                   *)
(***************************************************************************)
\* DiskCache::new: an absolute location, stored verbatim
location == <<"cache">>

\* Path::join of a relative filename onto an absolute path
PathJoin(base, filename) == base \o filename

\* Path::parent
Parent(path) == SubSeq(path, 1, Len(path) - 1)

\* a path and all its ancestors, the filesystem root <<>> included
Ancestors(path) == {SubSeq(path, 1, n) : n \in 0..Len(path)}

ProperAncestors(path) == Ancestors(path) \ {path}

(***************************************************************************)
(* The filesystem calls of std::fs the cache uses                          *)
(***************************************************************************)
IsDir(ds, path) == path \in ds

IsFile(fs, path) == path \in DOMAIN fs

\* fs::create_dir_all: creates path and every missing ancestor; fails when a
\* component is a regular file, or when the environment refuses
fs_create_dir_all(ds, fs, path, fault) ==
    IF fault # None
    THEN [ok |-> FALSE, kind |-> fault, dirs |-> ds]
    ELSE IF IsFile(fs, path)
    THEN [ok |-> FALSE, kind |-> "AlreadyExists", dirs |-> ds]
    ELSE IF \E a \in ProperAncestors(path) : IsFile(fs, a)
    THEN [ok |-> FALSE, kind |-> "NotADirectory", dirs |-> ds]
    ELSE [ok |-> TRUE, kind |-> None, dirs |-> ds \cup Ancestors(path)]

\* fs::read: the whole content of a regular file
fs_read(ds, fs, path) ==
    IF IsFile(fs, path)
    THEN [ok |-> TRUE, value |-> fs[path]]
    ELSE IF IsDir(ds, path)
    THEN [ok |-> FALSE, kind |-> "IsADirectory"]
    ELSE IF \E a \in ProperAncestors(path) : IsFile(fs, a)
    THEN [ok |-> FALSE, kind |-> "NotADirectory"]
    ELSE [ok |-> FALSE, kind |-> "NotFound"]

(***************************************************************************)
(* io::Error: a kind and a message.  The message is a sequence of parts,   *)
(* each a text with the path it names (NoPath when it names none).         *)
(***************************************************************************)
NoPath == <<"<none>">>

NoErr == [kind |-> None, msg |-> <<>>]

\* the error a failing filesystem call returns
OsError(kind) == [kind |-> kind, msg |-> <<[text |-> "os error", path |-> NoPath]>>]

\* the paths an error's message names
AnnotatedPaths(e) == {e.msg[i].path : i \in 1..Len(e.msg)} \ {NoPath}

\* mutant: the error is rebuilt with a fixed kind
with_io_context_kind_other(e, context) ==
    [kind |-> "Other", msg |-> e.msg \o <<[text |-> "for", path |-> context]>>]

\* with_io_context: same kind, message "<e> (for '<context>')"
with_io_context(e, context) ==
    [kind |-> e.kind, msg |-> e.msg \o <<[text |-> "for", path |-> context]>>]

(***************************************************************************)
(* DiskCache                                                               *)
(***************************************************************************)
\* mutant: the directory is reported to exist without being created
ensure_dir_exists_no_create(ds, fs, path, fault) ==
    [ok |-> TRUE, dirs |-> ds, err |-> NoErr]

\* DiskCache::ensure_dir_exists: nothing to do for a directory, otherwise
\* create_dir_all, whose error is replaced by one of the same kind naming path
ensure_dir_exists(ds, fs, path, fault) ==
    IF IsDir(ds, path)
    THEN [ok |-> TRUE, dirs |-> ds, err |-> NoErr]
    ELSE LET r == fs_create_dir_all(ds, fs, path, fault)
         IN  IF r.ok
             THEN [ok |-> TRUE, dirs |-> r.dirs, err |-> NoErr]
             ELSE [ok |-> FALSE, dirs |-> ds,
                   err |-> [kind |-> r.kind,
                            msg |-> <<[text |-> "Could not create TypeScript compiler cache location",
                                       path |-> path]>>]]

\* mutant: the filename is read as it is, not joined onto the location
get_without_location(ds, fs, filename) ==
    LET r == fs_read(ds, fs, filename)
    IN  IF r.ok
        THEN [ok |-> TRUE, value |-> r.value, err |-> NoErr]
        ELSE [ok |-> FALSE, value |-> <<>>, err |-> OsError(r.kind)]

\* mutant: a read that fails is answered with an empty value
get_or_default(ds, fs, filename) ==
    LET r == fs_read(ds, fs, PathJoin(location, filename))
    IN  [ok |-> TRUE, value |-> IF r.ok THEN r.value ELSE <<>>, err |-> NoErr]

\* DiskCache::get: read location.join(filename)
get(ds, fs, filename) ==
    LET path == PathJoin(location, filename)
        r == fs_read(ds, fs, path)
    IN  IF r.ok
        THEN [ok |-> TRUE, value |-> r.value, err |-> NoErr]
        ELSE [ok |-> FALSE, value |-> <<>>, err |-> OsError(r.kind)]

\* mutant: only the file name of filename is joined onto the location
set_path_file_name(filename) == PathJoin(location, <<filename[Len(filename)]>>)

\* DiskCache::set, first half: the target and its parent directory
set_path(filename) == PathJoin(location, filename)

set_ensure(ds, fs, filename, fault) ==
    ensure_dir_exists(ds, fs, Parent(set_path(filename)), fault)

\* DiskCache::set, second half: atomic_write_file's error, put in the context
\* of the target path
set_map_err(e, filename) == with_io_context(e, set_path(filename))

(***************************************************************************)
(* fs_util::atomic_write_file: writes the data to a temporary sibling of   *)
(* the target, then renames it onto the target.                            *)
(***************************************************************************)
\* mutant: the data is written to the target itself
TmpPath_in_place(path, p) == path

\* the temporary sibling of a caller's write: a name no other caller's write
\* and no filename uses
TmpPath(path, p) == Parent(path) \o <<"tmp-" \o p>>

\* open the temporary file for writing (created empty, or truncated)
atomic_write_file_create(ds, fs, tmp, fault) ==
    IF fault # None
    THEN [ok |-> FALSE, files |-> fs, err |-> OsError(fault)]
    ELSE IF ~IsDir(ds, Parent(tmp))
    THEN [ok |-> FALSE, files |-> fs, err |-> OsError("NotFound")]
    ELSE [ok |-> TRUE, files |-> (tmp :> <<>>) @@ fs, err |-> NoErr]

\* write the next byte of the data to the temporary file
atomic_write_file_write(fs, tmp, data, fault) ==
    IF fault # None
    THEN [ok |-> FALSE, files |-> fs, err |-> OsError(fault)]
    ELSE [ok |-> TRUE, err |-> NoErr,
          files |-> [fs EXCEPT ![tmp] = Append(@, data[Len(@) + 1])]]

\* fs::rename(tmp, path): path now names the temporary file's content and
\* tmp names nothing; fails when path is a directory
atomic_write_file_rename(ds, fs, tmp, path, fault) ==
    IF fault # None
    THEN [ok |-> FALSE, files |-> fs, err |-> OsError(fault)]
    ELSE IF IsDir(ds, path)
    THEN [ok |-> FALSE, files |-> fs, err |-> OsError("IsADirectory")]
    ELSE [ok |-> TRUE, err |-> NoErr,
          files |-> [q \in (DOMAIN fs \ {tmp}) \cup {path} |->
                        IF q = path THEN fs[tmp] ELSE fs[q]]]

(***************************************************************************)
(* Strings are sequences of one-character strings.                         *)
(***************************************************************************)
SchemeWasm == <<"w", "a", "s", "m">>
SchemeHttp == <<"h", "t", "t", "p">>
SchemeHttps == <<"h", "t", "t", "p", "s">>
SchemeData == <<"d", "a", "t", "a">>
SchemeFile == <<"f", "i", "l", "e">>
SchemeFoo == <<"f", "o", "o">>

Letters == {"a", "b", "c", "h", "j", "s", "t", "C", "O", "P", "R", "T"}

DigitChar(d) ==
    CASE d = 0 -> "0" [] d = 1 -> "1" [] d = 2 -> "2" [] d = 3 -> "3" [] d = 4 -> "4"
      [] d = 5 -> "5" [] d = 6 -> "6" [] d = 7 -> "7" [] d = 8 -> "8" [] d = 9 -> "9"

\* format!("{}", port): the decimal digits of a number
RECURSIVE Decimal(_)
Decimal(n) ==
    IF n < 10 THEN <<DigitChar(n)>>
    ELSE Decimal(n \div 10) \o <<DigitChar(n % 10)>>

\* str::replace(":", "_")
ReplaceColon(str) == [i \in 1..Len(str) |-> IF str[i] = ":" THEN "_" ELSE str[i]]

(***************************************************************************)
(* Locators (deno_core::url::Url).  host <<>> is a locator without host    *)
(* (host_str() is None); port {} is one without port; rooted says that the *)
(* path starts with "/" (path_segments() is Some(segs)); a path that does  *)
(* not is empty (segs = <<>>) or opaque (segs = <<path>>).                  *)
(***************************************************************************)
url_host_str(url) == [some |-> url.host # <<>>, val |-> url.host]

url_port(url) == url.port

url_path_segments(url) == [some |-> url.rooted, val |-> url.segs]

Hosts == {<<>>, <<"h">>, <<"h", "_", "P", "O", "R", "T", "1">>}

Ports == {{}, {1}, {12}}

RootedSegs ==
    { <<<<>>>>,
      <<<<"a">>>>,
      <<<<"a">>, <<>>>>,
      <<<<"a", ".", "t", "s">>>>,
      <<<<".", "b">>>>,
      <<<<"C", ":">>>>,
      <<<<"C", ":">>, <<"a">>>>,
      <<<<"b">>, <<"a", ".", "t", "s">>>> }

OpaqueSegs == {<<>>, <<<<"a">>>>}

\* the locators the derivation is applied to.  A locator with a port has a
\* host; one with a host and a path that is not rooted has the empty path;
\* http, https and file locators have rooted paths, http and https ones a
\* host (lower case), data ones neither host nor root.  Left out: a file
\* locator that is a bare drive ("file:///C:"), and one with a host and an
\* empty share or a drive (the parser drops the host of "file://h/C:/a").
Locators ==
    { u \in [scheme : {SchemeWasm, SchemeHttp, SchemeHttps, SchemeData, SchemeFile, SchemeFoo}, host : Hosts,
             port : Ports, rooted : BOOLEAN, segs : RootedSegs \cup OpaqueSegs] :
        /\ u.segs \in (IF u.rooted THEN RootedSegs ELSE OpaqueSegs)
        /\ u.host = <<>> => u.port = {}
        /\ (u.host # <<>> /\ ~u.rooted) => u.segs = <<>>
        /\ u.scheme \in {SchemeHttp, SchemeHttps} => (u.rooted /\ u.host = <<"h">>)
        /\ u.scheme = SchemeData => (u.host = <<>> /\ ~u.rooted /\ u.segs # <<>>)
        /\ u.scheme = SchemeFile =>
              /\ u.rooted
              /\ u.host \in {<<>>, <<"h">>}
              /\ u.port = {}
              /\ u.segs # <<<<"C", ":">>>>
              /\ (u.host # <<>> => u.segs[1] \notin {<<>>, <<"C", ":">>})
        /\ u.scheme = SchemeFoo =>
              (u.host = <<"h">> /\ u.port = {} /\ u.rooted /\ u.segs = <<<<"a">>>>) }

Extensions == {<<>>, <<"j", "s">>}

(***************************************************************************)
(* std::path, on paths as sequences of components                          *)
(***************************************************************************)
\* a component that is a drive prefix ("C:"), which only Windows paths have
IsPrefix(comp, target) ==
    /\ target = "windows"
    /\ Len(comp) = 2
    /\ comp[1] \in Letters
    /\ comp[2] = ":"

\* PathBuf::push of one name.  An empty name adds no component; on Windows a
\* name with a prefix replaces the path ("if path has a prefix but no root,
\* it replaces self").
Push(out, comp, target) ==
    IF comp = <<>> THEN out
    ELSE IF IsPrefix(comp, target) THEN <<comp>>
    ELSE Append(out, comp)

RECURSIVE PushAll(_, _, _)
PushAll(out, comps, target) ==
    IF comps = <<>> THEN out
    ELSE PushAll(Push(out, Head(comps), target), Tail(comps), target)

\* Path::file_name: the last component, when it is a normal one
FileName(path, target) ==
    IF path = <<>> \/ IsPrefix(path[Len(path)], target)
    THEN [some |-> FALSE, val |-> <<>>]
    ELSE [some |-> TRUE, val |-> path[Len(path)]]

\* position of the last "." of a name, 0 when it has none
LastDot(name) ==
    LET dots == {i \in 1..Len(name) : name[i] = "."}
    IN  IF dots = {} THEN 0 ELSE CHOOSE i \in dots : \A j \in dots : j <= i

\* rsplit_file_at_dot: (before, after) around the last dot of a file name
SplitFileAtDot(name) ==
    LET i == LastDot(name)
    IN  IF name = <<".", ".">> \/ i = 0 \/ i = 1
        THEN [stem |-> name, ext |-> [some |-> FALSE, val |-> <<>>]]
        ELSE [stem |-> SubSeq(name, 1, i - 1),
              ext |-> [some |-> TRUE, val |-> SubSeq(name, i + 1, Len(name))]]

\* Path::extension
Extension(path, target) ==
    LET f == FileName(path, target)
    IN  IF f.some THEN SplitFileAtDot(f.val).ext ELSE [some |-> FALSE, val |-> <<>>]

\* Path::with_extension: the file name cut after its stem, then "." and the
\* extension unless it is empty; a path without file name is left as it is
WithExtension(path, extension, target) ==
    LET f == FileName(path, target)
    IN  IF ~f.some THEN path
        ELSE [path EXCEPT ![Len(path)] =
                SplitFileAtDot(f.val).stem \o
                (IF extension = <<>> THEN <<>> ELSE <<".">> \o extension)]

(***************************************************************************)
(* Url::to_file_path: the absolute path of a file locator, as prefix, root *)
(* and normal components.                                                  *)
(***************************************************************************)
NonEmpty(comps) == SelectSeq(comps, LAMBDA c : c # <<>>)

NoFilePath == [ok |-> FALSE, prefix |-> "none", disk |-> "", server |-> <<>>,
               share |-> <<>>, comps |-> <<>>]

url_to_file_path(url, target) ==
    IF ~url.rooted THEN NoFilePath
    ELSE IF target = "windows"
    THEN IF url.host # <<>>
         THEN [ok |-> TRUE, prefix |-> "unc", disk |-> "", server |-> url.host,
               share |-> url.segs[1], comps |-> NonEmpty(Tail(url.segs))]
         ELSE IF IsPrefix(url.segs[1], target)
         THEN [ok |-> TRUE, prefix |-> "disk", disk |-> url.segs[1][1], server |-> <<>>,
               share |-> <<>>, comps |-> NonEmpty(Tail(url.segs))]
         ELSE NoFilePath
    ELSE IF url.host # <<>> THEN NoFilePath
    ELSE [ok |-> TRUE, prefix |-> "none", disk |-> "", server |-> <<>>,
          share |-> <<>>, comps |-> NonEmpty(url.segs)]

(***************************************************************************)
(* http_cache::url_to_filename: the scheme, the host with its port, and a  *)
(* digest of the path.                                                     *)
(***************************************************************************)
\* a digest: one component without dots or separators, different for
\* different paths
RECURSIVE Digest(_)
Digest(segs) ==
    IF segs = <<>> THEN <<>>
    ELSE <<"-">> \o [i \in 1..Len(Head(segs)) |->
                       IF Head(segs)[i] \in {".", ":"} THEN "_" ELSE Head(segs)[i]]
         \o <<"x", DigitChar(Len(Head(segs)) % 10), DigitChar(LastDot(Head(segs)) % 10)>>
         \o Digest(Tail(segs))

PathResult(res, path) == [res |-> res, path |-> path]

url_to_filename(url) ==
    IF url.scheme \in {SchemeHttp, SchemeHttps}
    THEN IF url.host = <<>> THEN PathResult("None", <<>>)
         ELSE PathResult("Some",
                <<url.scheme,
                  IF url.port = {} THEN url.host
                  ELSE url.host \o <<"_", "P", "O", "R", "T">> \o
                       Decimal(CHOOSE n \in url.port : TRUE),
                  <<"#">> \o Digest(url.segs)>>)
    ELSE IF url.scheme = SchemeData
    THEN PathResult("Some", <<url.scheme, <<"#">> \o Digest(url.segs)>>)
    ELSE PathResult("None", <<>>)

(***************************************************************************)
(* DiskCache: the path derivation                                          *)
(***************************************************************************)
\* the "wasm" arm of get_cache_filename; out holds the scheme
get_cache_filename_wasm(url, out, target) ==
    IF ~url_host_str(url).some THEN PathResult("Panic", <<>>)
    ELSE LET host == url_host_str(url).val
             host_port == IF url_port(url) # {}
                          THEN host \o <<"_", "P", "O", "R", "T">> \o
                               Decimal(CHOOSE n \in url_port(url) : TRUE)
                          ELSE host
             out1 == Push(out, host_port, target)
         IN  IF ~url_path_segments(url).some THEN PathResult("Panic", <<>>)
             ELSE PathResult("Some", PushAll(out1, url_path_segments(url).val, target))

\* the "file" arm of get_cache_filename; out holds the scheme
get_cache_filename_file(url, out, target) ==
    LET path == url_to_file_path(url, target)
    IN  IF ~path.ok THEN PathResult("None", <<>>)
        ELSE LET out1 ==
                   IF target = "windows" /\ path.prefix = "disk"
                   THEN Push(out, <<path.disk>>, target)
                   ELSE IF target = "windows" /\ path.prefix = "unc"
                   THEN Push(Push(Push(out, <<"U", "N", "C">>, target),
                                  ReplaceColon(path.server), target),
                             path.share, target)
                   ELSE out
             IN  PathResult("Some", out1 \o path.comps)

\* DiskCache::get_cache_filename: Some(path), None, or a panic
get_cache_filename(url, target) ==
    LET scheme == url.scheme
        out == Push(<<>>, scheme, target)
    IN  IF scheme = SchemeWasm THEN get_cache_filename_wasm(url, out, target)
        ELSE IF scheme \in {SchemeHttp, SchemeHttps, SchemeData} THEN url_to_filename(url)
        ELSE IF scheme = SchemeFile THEN get_cache_filename_file(url, out, target)
        ELSE PathResult("None", <<>>)

\* mutant: the extension replaces the one the base path has
get_cache_filename_with_extension_replacing(url, extension, target) ==
    LET base == get_cache_filename(url, target)
    IN  IF base.res # "Some" THEN base
        ELSE PathResult("Some", WithExtension(base.path, extension, target))

\* DiskCache::get_cache_filename_with_extension
get_cache_filename_with_extension(url, extension, target) ==
    LET base == get_cache_filename(url, target)
    IN  IF base.res # "Some" THEN base
        ELSE LET ext == Extension(base.path, target)
             IN  IF ~ext.some
                 THEN PathResult("Some", WithExtension(base.path, extension, target))
                 ELSE LET final_extension == ext.val \o <<".">> \o extension
                      IN  PathResult("Some",
                                     WithExtension(base.path, final_extension, target))

NoDerivation ==
    [url |-> [scheme |-> <<>>, host |-> <<>>, port |-> {}, rooted |-> FALSE, segs |-> <<>>],
     ext |-> <<>>, base |-> PathResult("NotRun", <<>>), full |-> PathResult("NotRun", <<>>)]

(***************************************************************************)
(* Callers                                                                 *)
(***************************************************************************)
IdleCall == [op |-> "idle", pc |-> "idle", path |-> <<>>, data |-> <<>>]

NoRet == [proc |-> None, op |-> "none", path |-> <<>>, ok |-> TRUE, value |-> <<>>,
          err |-> NoErr, stage |-> "none", cause |-> None]

Returned(p, op, filename, ok, value, err, stage, cause) ==
    [proc |-> p, op |-> op, path |-> filename, ok |-> ok, value |-> value,
     err |-> err, stage |-> stage, cause |-> cause]

Init ==
    /\ dirs = {<<>>}
    /\ files = <<>>
    /\ call = [p \in Procs |-> IdleCall]
    /\ ret = NoRet
    /\ ncalls = 0
    /\ lastSet = [f \in RelPaths |-> {}]
    /\ given = [f \in RelPaths |-> {}]
    /\ os = "linux"
    /\ cur = NoDerivation
    /\ prev = NoDerivation
    /\ phase = "first"

\* a caller runs get(filename) to its end
Get(p, filename) ==
    /\ call[p].op = "idle"
    /\ ncalls < MaxCalls
    /\ ncalls' = ncalls + 1
    /\ LET r == get(dirs, files, filename)
       IN  ret' = Returned(p, "get", filename, r.ok, r.value, r.err, "read", r.err.kind)
    /\ UNCHANGED <<dirs, files, call, lastSet, given>>

\* a caller enters set(filename, data): the parent directory is ensured, and
\* the call returns ensure_dir_exists's error or goes on to the write
SetEnsure(p, filename, data, fault) ==
    /\ call[p].op = "idle"
    /\ ncalls < MaxCalls
    /\ ncalls' = ncalls + 1
    /\ given' = [given EXCEPT ![filename] = @ \cup {data}]
    /\ LET r == set_ensure(dirs, files, filename, fault)
           under == fs_create_dir_all(dirs, files, Parent(set_path(filename)), fault)
       IN  /\ dirs' = r.dirs
           /\ IF r.ok
              THEN /\ call' = [call EXCEPT ![p] =
                                 [op |-> "set", pc |-> "create", path |-> filename,
                                  data |-> data]]
                   /\ ret' = ret
              ELSE /\ call' = call
                   /\ ret' = Returned(p, "set", filename, FALSE, <<>>, r.err,
                                      "ensure", under.kind)
    /\ UNCHANGED <<files, lastSet>>

\* the call of p returns the error of a step of atomic_write_file
SetFails(p, e, stage) ==
    /\ call' = [call EXCEPT ![p] = IdleCall]
    /\ ret' = Returned(p, "set", call[p].path, FALSE, <<>>,
                       set_map_err(e, call[p].path), stage, e.kind)

SetCreate(p, fault) ==
    /\ call[p].pc = "create"
    /\ LET tmp == TmpPath(set_path(call[p].path), p)
           r == atomic_write_file_create(dirs, files, tmp, fault)
       IN  /\ files' = r.files
           /\ IF r.ok
              THEN /\ call' = [call EXCEPT ![p].pc =
                                 IF call[p].data = <<>> THEN "rename" ELSE "write"]
                   /\ ret' = ret
              ELSE SetFails(p, r.err, "create")
    /\ UNCHANGED <<dirs, ncalls, lastSet, given>>

SetWrite(p, fault) ==
    /\ call[p].pc = "write"
    /\ LET tmp == TmpPath(set_path(call[p].path), p)
           r == atomic_write_file_write(files, tmp, call[p].data, fault)
       IN  /\ files' = r.files
           /\ IF r.ok
              THEN /\ call' = [call EXCEPT ![p].pc =
                                 IF r.files[tmp] = call[p].data THEN "rename" ELSE "write"]
                   /\ ret' = ret
              ELSE SetFails(p, r.err, "write")
    /\ UNCHANGED <<dirs, ncalls, lastSet, given>>

SetRename(p, fault) ==
    /\ call[p].pc = "rename"
    /\ LET path == set_path(call[p].path)
           tmp == TmpPath(path, p)
           r == atomic_write_file_rename(dirs, files, tmp, path, fault)
       IN  /\ files' = r.files
           /\ IF r.ok
              THEN /\ call' = [call EXCEPT ![p] = IdleCall]
                   /\ ret' = Returned(p, "set", call[p].path, TRUE, <<>>, NoErr,
                                      "done", None)
                   /\ lastSet' = [lastSet EXCEPT ![call[p].path] = {call[p].data}]
              ELSE /\ SetFails(p, r.err, "rename")
                   /\ lastSet' = lastSet
    /\ UNCHANGED <<dirs, ncalls, given>>

\* the caller is killed in the middle of its set: nothing more is done
Crash(p) ==
    /\ call[p].op = "set"
    /\ call' = [call EXCEPT ![p] = IdleCall]
    /\ ret' = Returned(p, "set", call[p].path, FALSE, <<>>, NoErr, "crash", None)
    /\ UNCHANGED <<dirs, files, ncalls, lastSet, given>>

Next ==
    \E p \in Procs :
      /\ UNCHANGED codecVars
      /\
        \/ \E f \in RelPaths : Get(p, f)
        \/ \E f \in RelPaths, d \in Data, fault \in Faults : SetEnsure(p, f, d, fault)
        \/ \E fault \in Faults : SetCreate(p, fault)
        \/ \E fault \in Faults : SetWrite(p, fault)
        \/ \E fault \in Faults : SetRename(p, fault)
        \/ Crash(p)

Spec == Init /\ [][Next]_vars

(***************************************************************************)
(* The derivation, applied to two locators                                 *)
(***************************************************************************)
InitCodec ==
    /\ dirs = {<<>>}
    /\ files = <<>>
    /\ call = [p \in Procs |-> IdleCall]
    /\ ret = NoRet
    /\ ncalls = 0
    /\ lastSet = [f \in RelPaths |-> {}]
    /\ given = [f \in RelPaths |-> {}]
    /\ os \in {"linux", "windows"}
    /\ cur = NoDerivation
    /\ prev = NoDerivation
    /\ phase = "first"

\* a caller derives the path of a locator with an extension
GetCacheFilenameWithExtension(url, extension) ==
    /\ phase \in {"first", "second"}
    /\ phase' = IF phase = "first" THEN "second" ELSE "done"
    /\ prev' = cur
    /\ cur' = [url |-> url, ext |-> extension,
               base |-> get_cache_filename(url, os),
               full |-> get_cache_filename_with_extension(url, extension, os)]
    /\ UNCHANGED <<os, storeVars>>

NextCodec ==
    \E url \in Locators, extension \in Extensions :
        GetCacheFilenameWithExtension(url, extension)

SpecCodec == InitCodec /\ [][NextCodec]_vars

(***************************************************************************)
(* Claims about the store                                                  *)
(***************************************************************************)
\* the step is a get(f) by p that returns
GetReturns(p, f) ==
    /\ ncalls' = ncalls + 1
    /\ call' = call
    /\ ret'.op = "get"
    /\ ret'.proc = p
    /\ ret'.path = f

\* C1: get(p) returns exactly the data of the most recent successful set(p, .),
\* whatever sets ran before it and whatever sets ran on other paths.
C1_GetReturnsLastSet ==
    [][\A p \in Procs, f \in RelPaths :
          (GetReturns(p, f) /\ lastSet[f] # {})
              => (ret'.ok /\ ret'.value \in lastSet[f])]_vars

\* two sets ran on a path, and a get on it returned the data of the one that
\* succeeded last
C1_Witness ==
    /\ ret.op = "get"
    /\ ret.ok
    /\ ret.value = <<2, 1>>
    /\ given[ret.path] = Data
    /\ ncalls = 3

\* C2: the content at a target path changes only by becoming the complete
\* data of a set whose rename succeeds; every other step, a failing or
\* interrupted one included, leaves it as it was (absent if it was absent).
C2_TargetOldOrNew ==
    [][\A f \in RelPaths :
          LET t == PathJoin(location, f)
          IN  \/ /\ IsFile(files', t) <=> IsFile(files, t)
                 /\ IsFile(files, t) => files'[t] = files[t]
              \/ \E p \in Procs :
                    /\ call[p].pc = "rename"
                    /\ call[p].path = f
                    /\ ret'.ok /\ ret'.op = "set" /\ ret'.proc = p
                    /\ IsFile(files', t)
                    /\ files'[t] = call[p].data]_vars

\* a set failed in the middle of its write: its temporary file holds a part
\* of the data and the target still holds what the earlier set wrote
C2_Witness ==
    /\ ret.op = "set"
    /\ ~ret.ok
    /\ ret.stage = "write"
    /\ LET t == PathJoin(location, ret.path)
       IN  /\ IsFile(files, t)
           /\ files[t] = <<1>>
           /\ IsFile(files, TmpPath(t, ret.proc))
           /\ files[TmpPath(t, ret.proc)] = <<2>>

\* C3: with sets and gets running concurrently, a get that succeeds returns
\* the complete data of one of the sets on its path, a target file holds the
\* complete data of one of them, and it holds the data of the set whose
\* rename completed last.
C3_ConcurrentSets ==
    /\ (ret.op = "get" /\ ret.ok) => ret.value \in given[ret.path]
    /\ \A f \in RelPaths :
          LET t == PathJoin(location, f)
          IN  /\ IsFile(files, t) => files[t] \in given[f]
              /\ lastSet[f] # {} => (IsFile(files, t) /\ files[t] \in lastSet[f])

\* a get returned one set's data while another set on the same path had its
\* data written and was about to rename
C3_Witness ==
    /\ ret.op = "get"
    /\ ret.ok
    /\ \E p \in Procs :
          /\ call[p].pc = "rename"
          /\ call[p].path = ret.path
          /\ call[p].data # ret.value

\* C4 (state): a set that writes has every ancestor directory of its target;
\* a set fails at its directory only on a refusal of the filesystem or a file
\* in the way; after a successful set the target exists and the caller's
\* temporary sibling does not.
C4_Dirs ==
    /\ \A p \in Procs :
          call[p].op = "set"
              => ProperAncestors(PathJoin(location, call[p].path)) \subseteq dirs
    /\ (ret.op = "set" /\ ~ret.ok /\ ret.stage = "ensure")
          => \/ ret.cause \in Faults \ {None}
             \/ \E a \in ProperAncestors(PathJoin(location, ret.path)) : IsFile(files, a)
    /\ (ret.op = "set" /\ ret.ok /\ call[ret.proc].op = "idle")
          => LET t == PathJoin(location, ret.path)
             IN  IsFile(files, t) /\ ~IsFile(files, TmpPath(t, ret.proc))

\* the step is the successful return of p's set
SetSucceeds(p) ==
    /\ call[p].op = "set"
    /\ call'[p].op = "idle"
    /\ ret'.ok /\ ret'.op = "set" /\ ret'.proc = p

\* C4 (step): a set's successful return removes its temporary sibling and
\* leaves its target, and no other step adds a file other than the temporary
\* sibling of a set in progress.
C4_Files ==
    /\ \A p \in Procs :
          SetSucceeds(p)
              => LET t == PathJoin(location, call[p].path)
                 IN  DOMAIN files' = (DOMAIN files \ {TmpPath(t, p)}) \cup {t}
    /\ (\A p \in Procs : ~SetSucceeds(p))
          => DOMAIN files' \subseteq
                DOMAIN files \cup {TmpPath(PathJoin(location, call[p].path), p) :
                                     p \in {q \in Procs : call[q].op = "set"}}

\* C4: a set on a path whose parent directories are missing creates them
\* before writing and succeeds; after it the only file added is the target.
C4_CreatesParents == []C4_Dirs /\ [][C4_Files]_vars

\* the first call ever, a set below a directory that did not exist, succeeded
C4_Witness ==
    /\ ncalls = 1
    /\ ret.op = "set"
    /\ ret.ok
    /\ ret.path = <<"a", "b">>
    /\ DOMAIN files = {PathJoin(location, ret.path)}
    /\ PathJoin(location, <<"a">>) \in dirs

\* what fs::read returns for a path that is no regular file
AbsentKind(ds, fs, path) ==
    IF IsDir(ds, path) THEN "IsADirectory"
    ELSE IF \E a \in ProperAncestors(path) : IsFile(fs, a) THEN "NotADirectory"
    ELSE "NotFound"

\* C5 as stated: get on a path no successful set has written fails with
\* kind not-found.
C5_NeverWrittenIsNotFound ==
    [][\A p \in Procs, f \in RelPaths :
          (GetReturns(p, f) /\ lastSet[f] = {})
              => (~ret'.ok /\ ret'.err.kind = "NotFound")]_vars

\* C5 as amended: get on a path no successful set has written fails, with
\* kind not-found when nothing is at the path, is-a-directory when the path
\* is a directory made for an entry below it, not-a-directory when a
\* component of the path is a cache file; it never returns a value.
C5_NeverWrittenFails ==
    [][\A p \in Procs, f \in RelPaths :
          (GetReturns(p, f) /\ lastSet[f] = {})
              => /\ ~ret'.ok
                 /\ ret'.value = <<>>
                 /\ ret'.err.kind = AbsentKind(dirs, files, PathJoin(location, f))]_vars

\* a get on a never-written path failed with not-found while another path's
\* entry existed
C5_Witness ==
    /\ ret.op = "get"
    /\ ~ret.ok
    /\ ret.err.kind = "NotFound"
    /\ lastSet[ret.path] = {}
    /\ \E f \in RelPaths : lastSet[f] # {}

\* a set returned an error (it was not killed)
SetFailed == ret.op = "set" /\ ~ret.ok /\ ret.stage # "crash"

\* C6 as stated: whenever set fails, in the directory creation or in the
\* write or rename, its error names the full target path and has the kind of
\* the underlying failure.
C6_ErrorNamesTarget ==
    SetFailed
        => /\ PathJoin(location, ret.path) \in AnnotatedPaths(ret.err)
           /\ ret.err.kind = ret.cause

\* C6 as amended: a set that fails in the write or rename returns an error
\* naming the full target path; one that fails creating the parent directory
\* returns an error naming the parent directory and not the target; both
\* keep the kind of the underlying failure.
C6_ErrorNamesPath ==
    SetFailed
        => /\ ret.err.kind = ret.cause
           /\ ret.cause \in ErrorKinds
           /\ AnnotatedPaths(ret.err) =
                 IF ret.stage = "ensure"
                 THEN {Parent(PathJoin(location, ret.path))}
                 ELSE {PathJoin(location, ret.path)}

\* a set failed creating its parent directory, a file being in the way
C6_Witness ==
    /\ SetFailed
    /\ ret.stage = "ensure"
    /\ ret.cause = "AlreadyExists"

(***************************************************************************)
(* Claims about the derivation                                             *)
(***************************************************************************)
Ran(d) == d.base.res # "NotRun"

\* the last component of a path followed by "." and an extension
Dotted(path, extension) ==
    [path EXCEPT ![Len(path)] = @ \o <<".">> \o extension]

\* C7: get_cache_filename is total: for every locator it returns none or a
\* path and never aborts, and it returns none for an unrecognized scheme.
C7_Total ==
    Ran(cur)
        => /\ cur.base.res \in {"Some", "None"}
           /\ cur.url.scheme \notin {SchemeWasm, SchemeHttp, SchemeHttps, SchemeData, SchemeFile}
                 => cur.base.res = "None"

\* C8: two different locators for which get_cache_filename returns a path
\* get different paths.
C8_NoCollision ==
    (cur.base.res = "Some" /\ prev.base.res = "Some" /\ cur.url # prev.url)
        => cur.base.path # prev.base.path

\* C9: the first component of a path get_cache_filename returns is the
\* locator's scheme, for every scheme.
C9_FirstComponentIsScheme ==
    cur.base.res = "Some"
        => /\ cur.base.path # <<>>
           /\ cur.base.path[1] = cur.url.scheme

====
